---- MODULE Spec2Model ----
(***************************************************************************)
(* A model of the push-rpc runtime.                                        *)
(*                                                                         *)
(* Spec        the client of the hybrid transport (RpcClientImpl): the     *)
(*             consumer-facing subscribe / unsubscribe / close, the        *)
(*             resubscribe pass and the push callback, together with the   *)
(*             registry, the HTTP channel, the push channel and the server *)
(*             endpoint they talk to.                                      *)
(* SpecServer  the WebSocket server (ServerTopicImpl, RpcSession): the     *)
(*             handling of Subscribe / Unsubscribe messages, trigger and   *)
(*             the removal of a session when its socket closes.            *)
(* SpecTimeout the client's subscribe with call timeouts: the deadline the *)
(*             HTTP subscribe is given, and a supplier with a latency.     *)
(* SpecChannel the push channel on its own: connect, open, error, the      *)
(*             reconnect timer and its delay, the ping interval and the    *)
(*             liveness check, close().                                    *)
(* SpecSessions the server's sessions by client id (createRpcServer): a    *)
(*              connection under an id that has a session, the close       *)
(*              handler, getRemote and isConnected.                        *)
(*                                                                         *)
(* The specifications share the server's bookkeeping (subscribedSessions,  *)
(* subscriptions, sessions) and the operators that update it.              *)
(***************************************************************************)
EXTENDS Integers, Sequences, FiniteSets, Bags, TLC

\* ---------------------------------------------------------------- bounds
\* HTTP exchanges (subscribe, unsubscribe, resubscribe) in flight at once.
MaxInFlight == 2
\* Consumers registered for a key, or about to be.
MaxEntries == 2
\* Push frames in flight on the socket.
MaxQueue == 1
\* Subscribe messages the WebSocket server handles (SpecServer).
MaxMessages == 3

\* ---------------------------------------------------------------- domains
Keys == {"item"}
Consumers == {"sub1", "sub2"}
Sessions == {"s1", "s2"}
\* The session the server keeps for the hybrid client's id.
ClientSession == "s1"
\* `undefined`: no cached value.
Absent == 0
\* The values a topic's supplier returns, oldest first.
Values == {1, 2}
NoConsumer == "none"
\* No call ended with an error.
NoError == "none"
\* The last step handled no message.
NoMessage == [type |-> "none", found |-> TRUE]

VARIABLES
  \* --- client: RpcClientImpl and what it owns
  options,        \* ConsumeServicesOptions: [subscribe, cache]
  registry,       \* RemoteSubscriptions: key -> consumers, in insertion order
  lastValue,      \* RemoteSubscriptions: key -> cached value of the record
  cache,          \* external cache adapter: key -> value
  ops,            \* bag of HTTP exchanges in flight, each with its awaiting call
  wsState,        \* WebSocketConnection state
  everOpened,     \* the socket has opened before
  wsQueue,        \* Data frames sent by the server, not yet received
  \* --- server
  value,          \* what the supplier of a topic returns now
  subscribedSessions, \* ServerTopicImpl.subscribedSessions: key -> sessions
  subscriptions,  \* RpcSession.subscriptions: session -> keys
  sessions,       \* the server's list of live sessions
  status,         \* SpecServer: session -> "new" | "open" | "closed"
  pending,        \* SpecServer: subscribes awaiting the supplier
  messages,       \* SpecServer: Subscribe messages handled so far
  sent,           \* SpecServer: messages sent in the last step
  handled,        \* SpecServer: the message handled in the last step, if any
  \* --- observation of the last step and of the calls made so far
  delivered,      \* consumer invocations made by the last step
  held,           \* key -> consumer -> subscribe calls less unsubscribe calls
  unsubDone,      \* key -> consumer -> its unsubscribe of all it held: "no",
                  \*   "called", "returned"; "no" again once it subscribes
  unsubbed,       \* key -> the last consumer unsubscribed, no subscribe since
  scen,           \* key -> how the calls on the key went so far
  thrown,         \* the call that the last step ended with an error, if any
  discarded,      \* the data that the last step dropped without a consumer
  \* --- the push channel's timers and the socket under it (SpecChannel)
  delay,          \* the delay the next reconnect waits
  reconnectTimer, \* the delay the pending reconnect timer was set with, or 0
  pingTimer,      \* the ping interval is running
  alive,          \* the liveness flag: a pong came since the last ping
  pingOut,        \* a ping was sent and the peer has not answered it
  event,          \* what the channel did in the last step
  socket,         \* the socket: "none", "connecting", "open", "closing"
  \* --- the server's sessions by client id (SpecSessions)
  sessionOf,      \* createRpcServer's sessions: client id -> session, or 0
  ws,             \* session -> its socket: "none", "open", "closing",
                  \*   "removing" (close handler awaits remove), "closed"
  remoteIdOf,     \* session -> the client id its connection came with
  answer          \* what the last getRemote / isConnected call returned

clientVars == <<options, registry, lastValue, cache, ops, wsState,
                everOpened, wsQueue>>
serverVars == <<value, subscribedSessions, subscriptions, sessions>>
wsServerVars == <<status, pending, messages, sent, handled>>
ghostVars == <<delivered, held, unsubDone, unsubbed, scen, thrown, discarded>>
channelVars == <<delay, reconnectTimer, pingTimer, alive, pingOut, event, socket>>
localVars == <<sessionOf, ws, remoteIdOf, answer>>
vars == <<clientVars, serverVars, wsServerVars, ghostVars, channelVars,
         localVars>>

\* ---------------------------------------------------------------- helpers
Range(s) == {s[i] : i \in 1..Len(s)}

Count(s, x) == Cardinality({i \in 1..Len(s) : s[i] = x})

\* Array.indexOf: the first index of x, or 0 (JavaScript's -1) when absent.
IndexOf(s, x) ==
  IF x \in Range(s) THEN CHOOSE i \in 1..Len(s) : s[i] = x /\ \A j \in 1..(i-1) : s[j] # x
  ELSE 0

\* Array.splice(i, 1) for a 1-based i in range.
RemoveAt(s, i) == SubSeq(s, 1, i-1) \o SubSeq(s, i+1, Len(s))


\* Array.filter(x => x != k).
Without(s, k) == SelectSeq(s, LAMBDA x : x # k)

\* The keys in one fixed order (the iteration order of the registry's map).
RECURSIVE SetToSeq(_)
SetToSeq(S) == IF S = {} THEN <<>>
               ELSE LET x == CHOOSE y \in S : TRUE IN <<x>> \o SetToSeq(S \ {x})

KeySeq == SetToSeq(Keys)

\* ------------------------------------------------ server: the bookkeeping
\* ServerTopicImpl.subscribe, the session list: a session already in the
\* list of the key is not added again ("no double subscribe").
TopicSubscribeAlways(ss, key, session) == [ss EXCEPT ![key] = Append(@, session)]

TopicSubscribeIndexPositive(ss, key, session) ==
  IF IndexOf(ss[key], session) > 1 THEN ss
  ELSE [ss EXCEPT ![key] = Append(@, session)]

TopicSubscribe(ss, key, session) ==
  IF IndexOf(ss[key], session) > 0 THEN ss
  ELSE [ss EXCEPT ![key] = Append(@, session)]

\* ServerTopicImpl.unsubscribe: no list for the key, nothing to do; otherwise
\* splice(indexOf(session), 1), and indexOf is -1 for a session that is not
\* in the list: splice(-1, 1) removes the last element.
TopicUnsubscribe(ss, key, session) ==
  IF ss[key] = <<>> THEN ss
  ELSE LET index == IndexOf(ss[key], session)
           at == IF index = 0 THEN Len(ss[key]) ELSE index
       IN [ss EXCEPT ![key] = RemoveAt(@, at)]

\* RpcSession.unsubscribeAll: topic.unsubscribe for every entry of the
\* session's subscriptions, in order.
RECURSIVE UnsubscribeEach(_, _, _)
UnsubscribeEach(ss, keys, session) ==
  IF keys = <<>> THEN ss
  ELSE UnsubscribeEach(TopicUnsubscribe(ss, Head(keys), session), Tail(keys), session)

UnsubscribeAll(ss, subs, session) == UnsubscribeEach(ss, subs[session], session)

\* RpcSession.remove: unsubscribeAll, then the session leaves `sessions`.
RemoveFromSessions(list, session) ==
  LET index == IndexOf(list, session)
  IN IF index > 0 THEN RemoveAt(list, index) ELSE list

\* How many subscriptions the server holds for a session on a key.
ServerCount(session, key) == Count(subscribedSessions[key], session)

\* ------------------------------------------------ client: the registry
\* RemoteSubscriptions.getCached: the record's last value, else the external
\* cache adapter when one is configured.
GetCached(k) ==
  IF lastValue[k] # Absent THEN lastValue[k]
  ELSE IF options.cache THEN cache[k] ELSE Absent

\* One invocation of a consumer.
Invocation(c, k, d, via) == [consumer |-> c, key |-> k, data |-> d, via |-> via]

\* The invocations of every consumer of a list, in insertion order.
InvokeAll(list, k, d, via) == [i \in 1..Len(list) |-> Invocation(list[i], k, d, via)]

\* RemoteSubscriptions.unsubscribe, the consumers left: one occurrence of
\* the consumer is removed; an absent consumer changes nothing.
RemoveOne(list, c) ==
  LET index == IndexOf(list, c)
  IN IF index > 0 THEN RemoveAt(list, index) ELSE list

\* RemoteSubscriptions.unsubscribe for each consumer of a snapshot in turn.
RECURSIVE RemoveEach(_, _)
RemoveEach(list, snapshot) ==
  IF snapshot = <<>> THEN list
  ELSE RemoveEach(RemoveOne(list, Head(snapshot)), Tail(snapshot))

\* The cache adapter after a write-through.
CachePut(k, d) == IF options.cache THEN [cache EXCEPT ![k] = d] ELSE cache

\* ------------------------------------------------ client: HTTP exchanges
NewOp(kind, k, c, snapshot) ==
  [kind |-> kind, key |-> k, consumer |-> c, consumers |-> snapshot,
   st |-> "request", data |-> Absent]

AddOp(B, o) == B (+) SetToBag({o})

DelOp(B, o) == B (-) SetToBag({o})

InFlight == BagCardinality(ops)

\* Nothing is in flight: no HTTP exchange and no Data frame.
Quiescent == ops = EmptyBag /\ wsQueue = <<>>

\* The subscribes of consumers for a key that have not resolved yet.
RECURSIVE Copies(_, _)
Copies(B, T) == IF T = {} THEN 0
                ELSE LET o == CHOOSE x \in T : TRUE
                     IN CopiesIn(o, B) + Copies(B, T \ {o})

PendingSubscribes(k) ==
  Copies(ops, {o \in BagToSet(ops) : o.kind = "subscribe" /\ o.key = k})

\* The subscriptions the consumers hold for a key, by their own count.
RECURSIVE SumOver(_, _)
SumOver(f, S) == IF S = {} THEN 0
                 ELSE LET x == CHOOSE y \in S : TRUE IN f[x] + SumOver(f, S \ {x})

HeldBy(k) == SumOver(held[k], Consumers)

\* The unsubscribes for a key that have not returned yet.
PendingUnsubscribes(B, k) ==
  Copies(B, {o \in BagToSet(B) : o.kind = "unsubscribe" /\ o.key = k})

\* WebSocketConnection.connect: starts connecting when disconnected.
Connect(state) == IF state = "Disconnected" THEN "Connecting" ELSE state

ServerUnchanged == UNCHANGED <<serverVars, wsServerVars, channelVars, localVars>>

\* The exchanges in flight, as a set.
Ops == BagToSet(ops)


\* ------------------------------------------------ how the calls went
\* The calls on a key so far: "none"; "subscribing" (one subscribe, still in
\* flight); "raced" (that consumer unsubscribed before the subscribe
\* resolved); "failed" (the one subscribe was rejected); "offline" (the one
\* subscribe resolved while the socket was not open); "triggered" (while the
\* one subscribe was on its way back with data, the server pushed a newer
\* value); "subscribed" (the one subscribe resolved with the socket open);
\* then, each call made after the one before it returned and without the
\* socket being lost: "unsubscribing" and "unsubscribed" (that consumer's
\* unsubscribe), "resubscribing" and "again" (its second subscribe); or,
\* after "subscribed", "second" (a second subscribe, in flight), "pushed" (a
\* frame for the key arrived while it was) and "skipped" (it was then
\* rejected); "other".
ScenSubscribe(k, c) ==
  [scen EXCEPT ![k] =
     IF @ = "none" THEN "subscribing"
     ELSE IF @ = "unsubscribed" /\ unsubDone[k][c] = "returned" THEN "resubscribing"
     ELSE IF @ = "subscribed" THEN "second"
     ELSE "other"]

ScenUnsubscribe(k, c) ==
  [scen EXCEPT ![k] =
     IF @ = "subscribing"
        /\ \E o \in Ops : o.kind = "subscribe" /\ o.key = k /\ o.consumer = c
     THEN "raced"
     ELSE IF @ \in {"subscribed", "offline"} THEN "unsubscribing"
     ELSE "other"]

ScenResolved(k, result) ==
  [scen EXCEPT ![k] =
     IF @ = "subscribing"
     THEN (IF result = "error" THEN "failed"
           ELSE IF wsState # "Open" THEN "offline" ELSE "subscribed")
     ELSE IF @ = "resubscribing"
     THEN (IF result = "error" THEN "other" ELSE "again")
     ELSE IF @ = "pushed"
     THEN (IF result = "error" THEN "skipped" ELSE "other")
     ELSE IF @ = "second" THEN "other"
     ELSE @]

ScenUnsubscribed(k, result) ==
  [scen EXCEPT ![k] =
     IF @ = "unsubscribing"
     THEN (IF result = "error" THEN "other" ELSE "unsubscribed")
     ELSE @]

\* The socket is lost: a sequence of calls under way is no longer one made
\* on a standing connection.
ScenLost ==
  [k \in Keys |->
     IF scen[k] \in {"subscribed", "unsubscribing", "unsubscribed",
                     "resubscribing", "again", "second", "pushed", "skipped"}
     THEN "other" ELSE scen[k]]

ScenTriggered(k) ==
  [scen EXCEPT ![k] =
     IF @ = "subscribing"
        /\ \E o \in Ops : /\ o.kind = "subscribe" /\ o.key = k
                          /\ o.st = "ok" /\ o.data # value[k]
     THEN "triggered" ELSE @]

\* A frame for the key arrives while the second subscribe is in flight.
ScenPushed(k) == [scen EXCEPT ![k] = IF @ = "second" THEN "pushed" ELSE @]

\* ------------------------------------------------ client: RpcClientImpl
\* subscribe, up to the await: the cached value, if any, goes to the consumer
\* at once; connect() is started when push delivery is enabled; the HTTP
\* subscribe is sent.
SubscribeNoCached(k, c) ==
  /\ InFlight < MaxInFlight
  /\ HeldBy(k) < MaxEntries
  /\ Len(registry[k]) + PendingSubscribes(k) < MaxEntries
  /\ delivered' = <<>>
  /\ wsState' = IF options.subscribe THEN Connect(wsState) ELSE wsState
  /\ ops' = AddOp(ops, NewOp("subscribe", k, c, <<>>))
  /\ held' = [held EXCEPT ![k][c] = @ + 1]
  /\ unsubDone' = [unsubDone EXCEPT ![k][c] = "no"]
  /\ unsubbed' = [unsubbed EXCEPT ![k] = FALSE]
  /\ scen' = ScenSubscribe(k, c)
  /\ UNCHANGED <<options, registry, lastValue, cache, everOpened, wsQueue>>
  /\ ServerUnchanged
  /\ thrown' = NoError
  /\ discarded' = <<>>

SubscribeAlwaysConnects(k, c) ==
  /\ InFlight < MaxInFlight
  /\ HeldBy(k) < MaxEntries
  /\ Len(registry[k]) + PendingSubscribes(k) < MaxEntries
  /\ LET cached == GetCached(k)
     IN delivered' = IF cached # Absent THEN <<Invocation(c, k, cached, "cache")>>
                     ELSE <<>>
  /\ wsState' = Connect(wsState)
  /\ ops' = AddOp(ops, NewOp("subscribe", k, c, <<>>))
  /\ held' = [held EXCEPT ![k][c] = @ + 1]
  /\ unsubDone' = [unsubDone EXCEPT ![k][c] = "no"]
  /\ unsubbed' = [unsubbed EXCEPT ![k] = FALSE]
  /\ scen' = ScenSubscribe(k, c)
  /\ UNCHANGED <<options, registry, lastValue, cache, everOpened, wsQueue>>
  /\ ServerUnchanged
  /\ thrown' = NoError
  /\ discarded' = <<>>

Subscribe(k, c) ==
  /\ InFlight < MaxInFlight
  /\ HeldBy(k) < MaxEntries
  /\ Len(registry[k]) + PendingSubscribes(k) < MaxEntries
  /\ LET cached == GetCached(k)
     IN delivered' = IF cached # Absent THEN <<Invocation(c, k, cached, "cache")>>
                     ELSE <<>>
  /\ wsState' = IF options.subscribe THEN Connect(wsState) ELSE wsState
  /\ ops' = AddOp(ops, NewOp("subscribe", k, c, <<>>))
  /\ held' = [held EXCEPT ![k][c] = @ + 1]
  /\ unsubDone' = [unsubDone EXCEPT ![k][c] = "no"]
  /\ unsubbed' = [unsubbed EXCEPT ![k] = FALSE]
  /\ scen' = ScenSubscribe(k, c)
  /\ UNCHANGED <<options, registry, lastValue, cache, everOpened, wsQueue>>
  /\ ServerUnchanged
  /\ thrown' = NoError
  /\ discarded' = <<>>

\* subscribe, after the await: the HTTP subscribe returned data, and
\* remoteSubscriptions.subscribe adds the consumer, caches the data and hands
\* it to the consumer.
SubscribeResolved(o) ==
  /\ o \in Ops /\ o.kind = "subscribe" /\ o.st = "ok"
  /\ registry' = [registry EXCEPT ![o.key] = Append(@, o.consumer)]
  /\ lastValue' = [lastValue EXCEPT ![o.key] = o.data]
  /\ cache' = CachePut(o.key, o.data)
  /\ delivered' = <<Invocation(o.consumer, o.key, o.data, "subscribe")>>
  /\ ops' = DelOp(ops, o)
  /\ scen' = ScenResolved(o.key, "ok")
  /\ UNCHANGED <<options, wsState, everOpened, wsQueue, held, unsubDone, unsubbed>>
  /\ ServerUnchanged
  /\ thrown' = NoError
  /\ discarded' = <<>>

\* subscribe, the await throws: the error goes to the caller and
\* remoteSubscriptions.subscribe is not reached.
SubscribeRejectedButAdded(o) ==
  /\ o \in Ops /\ o.kind = "subscribe" /\ o.st = "error"
  /\ registry' = [registry EXCEPT ![o.key] = Append(@, o.consumer)]
  /\ delivered' = <<>>
  /\ ops' = DelOp(ops, o)
  /\ scen' = ScenResolved(o.key, "error")
  /\ UNCHANGED <<options, lastValue, cache, wsState, everOpened, wsQueue,
                 held, unsubDone, unsubbed>>
  /\ ServerUnchanged
  /\ thrown' = "subscribe"
  /\ discarded' = <<>>

SubscribeRejectedFlushes(o) ==
  /\ o \in Ops /\ o.kind = "subscribe" /\ o.st = "error"
  /\ delivered' = InvokeAll(registry[o.key], o.key, lastValue[o.key], "push")
  /\ ops' = DelOp(ops, o)
  /\ scen' = ScenResolved(o.key, "error")
  /\ UNCHANGED <<options, registry, lastValue, cache, wsState, everOpened,
                 wsQueue, held, unsubDone, unsubbed>>
  /\ ServerUnchanged
  /\ thrown' = "subscribe"
  /\ discarded' = <<>>

SubscribeRejected(o) ==
  /\ o \in Ops /\ o.kind = "subscribe" /\ o.st = "error"
  /\ delivered' = <<>>
  /\ ops' = DelOp(ops, o)
  /\ scen' = ScenResolved(o.key, "error")
  /\ UNCHANGED <<options, registry, lastValue, cache, wsState, everOpened,
                 wsQueue, held, unsubDone, unsubbed>>
  /\ ServerUnchanged
  /\ thrown' = "subscribe"
  /\ discarded' = <<>>

\* The consumers call unsubscribe for what they subscribed. The call that
\* gives up the last subscription a consumer holds for the key is noted.
UnsubscribeCalled(k, c, state) ==
  IF held[k][c] = 1 THEN [unsubDone EXCEPT ![k][c] = state] ELSE unsubDone

\* unsubscribe, up to the await: remoteSubscriptions.unsubscribe removes one
\* occurrence of the consumer and tells whether no consumer is left for the
\* key; if so the record goes and the HTTP unsubscribe is sent, otherwise
\* the call returns.
UnsubscribeNeverTellsServer(k, c) ==
  LET left == RemoveOne(registry[k], c)
  IN /\ held[k][c] > 0
     /\ held' = [held EXCEPT ![k][c] = @ - 1]
     /\ registry' = [registry EXCEPT ![k] = left]
     /\ lastValue' = IF left = <<>> THEN [lastValue EXCEPT ![k] = Absent] ELSE lastValue
     /\ ops' = ops
     /\ unsubDone' = UnsubscribeCalled(k, c, "returned")
     /\ unsubbed' = [unsubbed EXCEPT ![k] = (left = <<>> /\ registry[k] # <<>>) \/ @]
     /\ scen' = ScenUnsubscribe(k, c)
     /\ delivered' = <<>>
     /\ UNCHANGED <<options, cache, wsState, everOpened, wsQueue>>
     /\ ServerUnchanged
     /\ thrown' = NoError
     /\ discarded' = <<>>

UnsubscribeAlwaysTellsServer(k, c) ==
  LET left == RemoveOne(registry[k], c)
  IN /\ held[k][c] > 0
     /\ InFlight < MaxInFlight
     /\ held' = [held EXCEPT ![k][c] = @ - 1]
     /\ registry' = [registry EXCEPT ![k] = left]
     /\ lastValue' = IF left = <<>> THEN [lastValue EXCEPT ![k] = Absent] ELSE lastValue
     /\ ops' = AddOp(ops, NewOp("unsubscribe", k, NoConsumer, <<>>))
     /\ unsubDone' = UnsubscribeCalled(k, c, "called")
     /\ unsubbed' = [unsubbed EXCEPT ![k] = (left = <<>> /\ registry[k] # <<>>) \/ @]
     /\ scen' = ScenUnsubscribe(k, c)
     /\ delivered' = <<>>
     /\ UNCHANGED <<options, cache, wsState, everOpened, wsQueue>>
     /\ ServerUnchanged
     /\ thrown' = NoError
     /\ discarded' = <<>>

Unsubscribe(k, c) ==
  LET left == RemoveOne(registry[k], c)
      noSubscriptionsLeft == left = <<>>
  IN /\ held[k][c] > 0
     /\ noSubscriptionsLeft => InFlight < MaxInFlight
     /\ held' = [held EXCEPT ![k][c] = @ - 1]
     /\ registry' = [registry EXCEPT ![k] = left]
     /\ lastValue' = IF left = <<>> THEN [lastValue EXCEPT ![k] = Absent] ELSE lastValue
     /\ IF noSubscriptionsLeft
        THEN /\ ops' = AddOp(ops, NewOp("unsubscribe", k, NoConsumer, <<>>))
             /\ unsubDone' = UnsubscribeCalled(k, c, "called")
        ELSE /\ ops' = ops
             /\ unsubDone' = UnsubscribeCalled(k, c, "returned")
     /\ unsubbed' = [unsubbed EXCEPT ![k] = (left = <<>> /\ registry[k] # <<>>) \/ @]
     /\ scen' = ScenUnsubscribe(k, c)
     /\ delivered' = <<>>
     /\ UNCHANGED <<options, cache, wsState, everOpened, wsQueue>>
     /\ ServerUnchanged
     /\ thrown' = NoError
     /\ discarded' = <<>>

\* Once no unsubscribe for the key is in flight, every unsubscribe called
\* for it has returned.
UnsubscribesReturned(B, k) ==
  IF PendingUnsubscribes(B, k) > 0 THEN unsubDone
  ELSE [unsubDone EXCEPT ![k] = [c \in Consumers |->
          IF unsubDone[k][c] = "called" THEN "returned" ELSE unsubDone[k][c]]]

\* unsubscribe, after the await: the call returns.
UnsubscribeResolved(o) ==
  /\ o \in Ops /\ o.kind = "unsubscribe" /\ o.st = "ok"
  /\ ops' = DelOp(ops, o)
  /\ unsubDone' = UnsubscribesReturned(ops', o.key)
  /\ scen' = ScenUnsubscribed(o.key, "ok")
  /\ delivered' = <<>>
  /\ UNCHANGED <<options, registry, lastValue, cache, wsState, everOpened,
                 wsQueue, held, unsubbed>>
  /\ ServerUnchanged
  /\ thrown' = NoError
  /\ discarded' = <<>>

\* unsubscribe, the await throws: nothing catches it, the error goes to the
\* caller. The registry was updated before the await and stays as it is.
UnsubscribeRejected(o) ==
  /\ o \in Ops /\ o.kind = "unsubscribe" /\ o.st = "error"
  /\ ops' = DelOp(ops, o)
  /\ unsubDone' = UnsubscribesReturned(ops', o.key)
  /\ scen' = ScenUnsubscribed(o.key, "error")
  /\ delivered' = <<>>
  /\ thrown' = "unsubscribe"
  /\ discarded' = <<>>
  /\ UNCHANGED <<options, registry, lastValue, cache, wsState, everOpened,
                 wsQueue, held, unsubbed>>
  /\ ServerUnchanged

\* The keys that have a record, in the registry's iteration order.
LiveKeys(reg) == SelectSeq(KeySeq, LAMBDA k : reg[k] # <<>>)

\* resubscribe: an HTTP subscribe for every entry of getAllSubscriptions(),
\* each with the consumers the entry had.
ResubscribeNothing(B, reg) == B

RECURSIVE ResubscribeEach(_, _, _)
ResubscribeEach(B, reg, keys) ==
  IF keys = <<>> THEN B
  ELSE ResubscribeEach(AddOp(B, NewOp("resubscribe", Head(keys), NoConsumer, reg[Head(keys)])),
                       reg, Tail(keys))

Resubscribe(B, reg) == ResubscribeEach(B, reg, LiveKeys(reg))

\* RemoteSubscriptions.consume: with a record for the key the data is cached
\* and handed to every consumer; without one it is dropped.
ConsumeAlwaysCaches(k, d, via) ==
  /\ lastValue' = [lastValue EXCEPT ![k] = d]
  /\ cache' = CachePut(k, d)
  /\ delivered' = InvokeAll(registry[k], k, d, via)
  /\ discarded' = IF registry[k] # <<>> THEN <<>> ELSE <<[key |-> k, data |-> d]>>

Consume(k, d, via) ==
  IF registry[k] # <<>>
  THEN /\ lastValue' = [lastValue EXCEPT ![k] = d]
       /\ cache' = CachePut(k, d)
       /\ delivered' = InvokeAll(registry[k], k, d, via)
       /\ discarded' = <<>>
  ELSE /\ UNCHANGED <<lastValue, cache>>
       /\ delivered' = <<>>
       /\ discarded' = <<[key |-> k, data |-> d]>>

\* resubscribe, .then: the fresh data is consumed.
ResubscribeResolved(o) ==
  /\ o \in Ops /\ o.kind = "resubscribe" /\ o.st = "ok"
  /\ Consume(o.key, o.data, "resubscribe")
  /\ ops' = DelOp(ops, o)
  /\ UNCHANGED <<options, registry, wsState, everOpened, wsQueue,
                 held, unsubDone, unsubbed, scen>>
  /\ ServerUnchanged
  /\ thrown' = NoError

\* resubscribe, .catch: every consumer the entry had is unsubscribed from the
\* registry.
ResubscribeRejected(o) ==
  /\ o \in Ops /\ o.kind = "resubscribe" /\ o.st = "error"
  /\ LET left == RemoveEach(registry[o.key], o.consumers)
     IN /\ registry' = [registry EXCEPT ![o.key] = left]
        /\ lastValue' = IF left = <<>> THEN [lastValue EXCEPT ![o.key] = Absent]
                        ELSE lastValue
  /\ ops' = DelOp(ops, o)
  /\ delivered' = <<>>
  /\ UNCHANGED <<options, cache, wsState, everOpened, wsQueue,
                 held, unsubDone, unsubbed, scen>>
  /\ ServerUnchanged
  /\ thrown' = NoError
  /\ discarded' = <<>>

\* The push callback given to WebSocketConnection: a Data frame is consumed.
WsDeliver ==
  /\ wsState = "Open" /\ wsQueue # <<>>
  /\ Consume(Head(wsQueue).key, Head(wsQueue).data, "push")
  /\ wsQueue' = Tail(wsQueue)
  /\ scen' = ScenPushed(Head(wsQueue).key)
  /\ UNCHANGED <<options, registry, ops, wsState, everOpened,
                 held, unsubDone, unsubbed>>
  /\ ServerUnchanged
  /\ thrown' = NoError

\* The server drops a session whose socket closed (RpcSession.remove).
ServerRemove(session) ==
  /\ subscribedSessions' = UnsubscribeAll(subscribedSessions, subscriptions, session)
  /\ subscriptions' = [subscriptions EXCEPT ![session] = <<>>]
  /\ sessions' = RemoveFromSessions(sessions, session)

\* close(): connection.close(), and nothing else.
CloseClearsRegistry ==
  /\ wsState # "Closed"
  /\ wsState' = "Closed"
  /\ registry' = [k \in Keys |-> <<>>]
  /\ lastValue' = [k \in Keys |-> Absent]
  /\ IF wsState = "Open"
     THEN ServerRemove(ClientSession) /\ wsQueue' = <<>>
     ELSE UNCHANGED <<subscribedSessions, subscriptions, sessions, wsQueue>>
  /\ delivered' = <<>>
  /\ UNCHANGED <<options, cache, ops, everOpened,
                 value, wsServerVars, channelVars, localVars, held, unsubDone, unsubbed, scen>>
  /\ thrown' = NoError
  /\ discarded' = <<>>

Close ==
  /\ wsState # "Closed"
  /\ wsState' = "Closed"
  /\ IF wsState = "Open"
     THEN ServerRemove(ClientSession) /\ wsQueue' = <<>>
     ELSE UNCHANGED <<subscribedSessions, subscriptions, sessions, wsQueue>>
  /\ delivered' = <<>>
  /\ UNCHANGED <<options, registry, lastValue, cache, ops, everOpened,
                 value, wsServerVars, channelVars, localVars, held, unsubDone, unsubbed, scen>>
  /\ thrown' = NoError
  /\ discarded' = <<>>


\* ------------------------------------------------ the push channel
\* The socket opens. On every open but the first, onReconnected (resubscribe)
\* runs. The server adds the session to its list.
WsOpenAlwaysResubscribes ==
  /\ wsState = "Connecting"
  /\ InFlight + Len(LiveKeys(registry)) <= MaxInFlight
  /\ wsState' = "Open"
  /\ everOpened' = TRUE
  /\ ops' = Resubscribe(ops, registry)
  /\ sessions' = Append(sessions, ClientSession)
  /\ delivered' = <<>>
  /\ UNCHANGED <<options, registry, lastValue, cache, wsQueue, value,
                 subscribedSessions, subscriptions, wsServerVars, channelVars, localVars,
                 held, unsubDone, unsubbed, scen>>
  /\ thrown' = NoError
  /\ discarded' = <<>>

WsOpen ==
  /\ wsState = "Connecting"
  /\ everOpened => InFlight + Len(LiveKeys(registry)) <= MaxInFlight
  /\ wsState' = "Open"
  /\ everOpened' = TRUE
  /\ ops' = IF everOpened THEN Resubscribe(ops, registry) ELSE ops
  /\ sessions' = Append(sessions, ClientSession)
  /\ delivered' = <<>>
  /\ UNCHANGED <<options, registry, lastValue, cache, wsQueue, value,
                 subscribedSessions, subscriptions, wsServerVars, channelVars, localVars,
                 held, unsubDone, unsubbed, scen>>
  /\ thrown' = NoError
  /\ discarded' = <<>>

\* The connection attempt fails: back off.
WsFail ==
  /\ wsState = "Connecting"
  /\ wsState' = "Backoff"
  /\ delivered' = <<>>
  /\ UNCHANGED <<options, registry, lastValue, cache, ops, everOpened,
                 wsQueue, held, unsubDone, unsubbed, scen>>
  /\ ServerUnchanged
  /\ thrown' = NoError
  /\ discarded' = <<>>

\* The backoff timer fires: connect again.
WsRetry ==
  /\ wsState = "Backoff"
  /\ wsState' = "Connecting"
  /\ delivered' = <<>>
  /\ UNCHANGED <<options, registry, lastValue, cache, ops, everOpened,
                 wsQueue, held, unsubDone, unsubbed, scen>>
  /\ ServerUnchanged
  /\ thrown' = NoError
  /\ discarded' = <<>>

\* The open socket is lost: the client backs off, the frames in flight are
\* gone, and the server removes the session.
WsLost ==
  /\ wsState = "Open"
  /\ wsState' = "Backoff"
  /\ wsQueue' = <<>>
  /\ ServerRemove(ClientSession)
  /\ delivered' = <<>>
  /\ scen' = ScenLost
  /\ UNCHANGED <<options, registry, lastValue, cache, ops, everOpened,
                 value, wsServerVars, channelVars, localVars, held, unsubDone, unsubbed>>
  /\ thrown' = NoError
  /\ discarded' = <<>>

\* ------------------------------------------------ the server's HTTP endpoint
ClientUnchanged ==
  UNCHANGED <<options, registry, lastValue, cache, wsState, everOpened,
              held, unsubDone, unsubbed, scen>>

\* An endpoint that records a subscription only for a client whose socket is
\* connected.
HttpSubscribeServedWhenConnected(o) ==
  /\ o \in Ops /\ o.kind \in {"subscribe", "resubscribe"} /\ o.st = "request"
  /\ LET connected == ClientSession \in Range(sessions)
         known == IndexOf(subscribedSessions[o.key], ClientSession) > 0
     IN /\ subscribedSessions' =
             IF connected THEN TopicSubscribe(subscribedSessions, o.key, ClientSession)
             ELSE subscribedSessions
        /\ subscriptions' =
             IF connected /\ ~known
             THEN [subscriptions EXCEPT ![ClientSession] = Append(@, o.key)]
             ELSE subscriptions
  /\ ops' = AddOp(DelOp(ops, o), [o EXCEPT !.st = "ok", !.data = value[o.key]])
  /\ delivered' = <<>>
  /\ ClientUnchanged
  /\ UNCHANGED <<wsQueue, value, sessions, wsServerVars, channelVars, localVars>>
  /\ thrown' = NoError
  /\ discarded' = <<>>

\* An HTTP subscribe is served: the supplier returns the current value, the
\* subscription is recorded for the client's session (a duplicate subscribe
\* records nothing new) and the value goes back.
HttpSubscribeServed(o) ==
  /\ o \in Ops /\ o.kind \in {"subscribe", "resubscribe"} /\ o.st = "request"
  /\ subscribedSessions' = TopicSubscribe(subscribedSessions, o.key, ClientSession)
  /\ subscriptions' =
       IF IndexOf(subscribedSessions[o.key], ClientSession) > 0 THEN subscriptions
       ELSE [subscriptions EXCEPT ![ClientSession] = Append(@, o.key)]
  /\ ops' = AddOp(DelOp(ops, o), [o EXCEPT !.st = "ok", !.data = value[o.key]])
  /\ delivered' = <<>>
  /\ ClientUnchanged
  /\ UNCHANGED <<wsQueue, value, sessions, wsServerVars, channelVars, localVars>>
  /\ thrown' = NoError
  /\ discarded' = <<>>

\* An HTTP subscribe fails: the supplier throws, nothing is recorded and the
\* error goes back.
HttpSubscribeFailed(o) ==
  /\ o \in Ops /\ o.kind \in {"subscribe", "resubscribe"} /\ o.st = "request"
  /\ ops' = AddOp(DelOp(ops, o), [o EXCEPT !.st = "error"])
  /\ delivered' = <<>>
  /\ ClientUnchanged
  /\ UNCHANGED <<wsQueue>>
  /\ ServerUnchanged
  /\ thrown' = NoError
  /\ discarded' = <<>>

\* An endpoint that drops the session from the key's list but keeps the
\* session's own entry for the key.
HttpUnsubscribeServedKeepsEntry(o) ==
  /\ o \in Ops /\ o.kind = "unsubscribe" /\ o.st = "request"
  /\ subscribedSessions' = TopicUnsubscribe(subscribedSessions, o.key, ClientSession)
  /\ subscriptions' = subscriptions
  /\ ops' = AddOp(DelOp(ops, o), [o EXCEPT !.st = "ok"])
  /\ delivered' = <<>>
  /\ ClientUnchanged
  /\ UNCHANGED <<wsQueue, value, sessions, wsServerVars, channelVars, localVars>>
  /\ thrown' = NoError
  /\ discarded' = <<>>

\* An HTTP unsubscribe is served: the session's subscription to the key goes
\* (RpcSession.unsubscribe).
HttpUnsubscribeServed(o) ==
  /\ o \in Ops /\ o.kind = "unsubscribe" /\ o.st = "request"
  /\ subscribedSessions' = TopicUnsubscribe(subscribedSessions, o.key, ClientSession)
  /\ subscriptions' = [subscriptions EXCEPT ![ClientSession] = Without(@, o.key)]
  /\ ops' = AddOp(DelOp(ops, o), [o EXCEPT !.st = "ok"])
  /\ delivered' = <<>>
  /\ ClientUnchanged
  /\ UNCHANGED <<wsQueue, value, sessions, wsServerVars, channelVars, localVars>>
  /\ thrown' = NoError
  /\ discarded' = <<>>

\* An HTTP unsubscribe fails (the request times out or the connection is
\* refused): the server has not seen it and the error goes back.
HttpUnsubscribeFailed(o) ==
  /\ o \in Ops /\ o.kind = "unsubscribe" /\ o.st = "request"
  /\ ops' = AddOp(DelOp(ops, o), [o EXCEPT !.st = "error"])
  /\ delivered' = <<>>
  /\ ClientUnchanged
  /\ UNCHANGED <<wsQueue>>
  /\ ServerUnchanged
  /\ thrown' = NoError
  /\ discarded' = <<>>

\* The value behind a topic changes.
ServerSetValue(k) ==
  /\ value[k] + 1 \in Values
  /\ value' = [value EXCEPT ![k] = @ + 1]
  /\ delivered' = <<>>
  /\ ClientUnchanged
  /\ UNCHANGED <<ops, wsQueue, subscribedSessions, subscriptions, sessions, wsServerVars, channelVars, localVars>>
  /\ thrown' = NoError
  /\ discarded' = <<>>

\* trigger: a Data frame with the current value for every entry of the key's
\* session list; the frame reaches the client's socket when it is open.
ServerTrigger(k) ==
  /\ wsState = "Open"
  /\ ServerCount(ClientSession, k) > 0
  /\ Len(wsQueue) + ServerCount(ClientSession, k) <= MaxQueue
  /\ wsQueue' = wsQueue \o [i \in 1..ServerCount(ClientSession, k) |->
                              [key |-> k, data |-> value[k]]]
  /\ delivered' = <<>>
  /\ scen' = ScenTriggered(k)
  /\ UNCHANGED <<options, registry, lastValue, cache, wsState, everOpened,
                 held, unsubDone, unsubbed, ops>>
  /\ ServerUnchanged
  /\ thrown' = NoError
  /\ discarded' = <<>>

\* No reconnect timer is pending.
NoTimer == 0

\* ------------------------------------------------ sessions by client id
\* Connections the server accepts in a run; each makes one session object.
MaxConnections == 3

ClientIds == {"a", "b"}
SessionIds == 1..MaxConnections
NoSession == 0
NoAnswer == [op |-> "none", id |-> "none", thrown |-> FALSE, value |-> 0]

\* createRpcServer before any connection: `sessions` is {}.
NoClients ==
  /\ sessionOf = [id \in ClientIds |-> NoSession]
  /\ ws = [s \in SessionIds |-> "none"]
  /\ remoteIdOf = [s \in SessionIds |-> "none"]
  /\ answer = NoAnswer

\* The push channel before connect(): no socket, no timer, and the liveness
\* flag as a new socket has it.
ChannelIdle ==
  /\ delay = NoTimer
  /\ reconnectTimer = NoTimer
  /\ pingTimer = FALSE
  /\ alive = TRUE
  /\ pingOut = FALSE
  /\ event = "none"
  /\ socket = "none"

\* ------------------------------------------------ the client's specification
Init ==
  /\ options \in {[subscribe |-> b, cache |-> TRUE] : b \in BOOLEAN}
  /\ registry = [k \in Keys |-> <<>>]
  /\ lastValue = [k \in Keys |-> Absent]
  /\ cache = [k \in Keys |-> Absent]
  /\ ops = EmptyBag
  /\ wsState = "Disconnected"
  /\ everOpened = FALSE
  /\ wsQueue = <<>>
  /\ value = [k \in Keys |-> 1]
  /\ subscribedSessions = [k \in Keys |-> <<>>]
  /\ subscriptions = [s \in Sessions |-> <<>>]
  /\ sessions = <<>>
  /\ status = [s \in Sessions |-> "new"]
  /\ pending = {}
  /\ messages = 0
  /\ sent = <<>>
  /\ handled = NoMessage
  /\ delivered = <<>>
  /\ held = [k \in Keys |-> [c \in Consumers |-> 0]]
  /\ unsubDone = [k \in Keys |-> [c \in Consumers |-> "no"]]
  /\ unsubbed = [k \in Keys |-> FALSE]
  /\ scen = [k \in Keys |-> "none"]
  /\ thrown = NoError
  /\ discarded = <<>>
  /\ ChannelIdle
  /\ NoClients

Next ==
  \/ \E k \in Keys, c \in Consumers : Subscribe(k, c)
  \/ \E o \in Ops : SubscribeResolved(o)
  \/ \E o \in Ops : SubscribeRejected(o)
  \/ \E k \in Keys, c \in Consumers : Unsubscribe(k, c)
  \/ \E o \in Ops : UnsubscribeResolved(o)
  \/ \E o \in Ops : UnsubscribeRejected(o)
  \/ \E o \in Ops : ResubscribeResolved(o)
  \/ \E o \in Ops : ResubscribeRejected(o)
  \/ WsDeliver
  \/ Close
  \/ WsOpen
  \/ WsFail
  \/ WsRetry
  \/ WsLost
  \/ \E o \in Ops : HttpSubscribeServed(o)
  \/ \E o \in Ops : HttpSubscribeFailed(o)
  \/ \E o \in Ops : HttpUnsubscribeServed(o)
  \/ \E o \in Ops : HttpUnsubscribeFailed(o)
  \/ \E k \in Keys : ServerSetValue(k)
  \/ \E k \in Keys : ServerTrigger(k)

Spec == Init /\ [][Next]_vars

\* ------------------------------------------------ call timeouts
\* RpcErrors.Timeout.
Timeout == 504

\* The deadlines and the supplier latencies, in ticks.
MaxTimeout == 3

Timeouts == 1..MaxTimeout

\* No CallOptions timeout was given with the call.
NoTimeout == 0

\* The deadline of the HTTP subscribe that RpcClientImpl.subscribe sends. The
\* HttpClient is built with the client's callTimeout and subscribe hands it
\* the item name and the parameters only ("TODO callTimeout"): a timeout given
\* with the call is not passed on.
EffectiveTimeout(callTimeout, perCall) == callTimeout

\* The HTTP subscribe of a subscribe call made with the per-call timeout
\* perCall (or NoTimeout).
TimedOp(k, c, perCall) ==
  [kind |-> "subscribe", key |-> k, consumer |-> c, consumers |-> <<>>,
   st |-> "request", data |-> Absent, perCall |-> perCall,
   timeout |-> EffectiveTimeout(options.callTimeout, perCall),
   latency |-> Absent]

\* subscribe with CallOptions, up to the await.
TimedSubscribe(k, c, perCall) ==
  /\ InFlight < MaxInFlight
  /\ HeldBy(k) < MaxEntries
  /\ Len(registry[k]) + PendingSubscribes(k) < MaxEntries
  /\ LET cached == GetCached(k)
     IN delivered' = IF cached # Absent THEN <<Invocation(c, k, cached, "cache")>>
                     ELSE <<>>
  /\ wsState' = IF options.subscribe THEN Connect(wsState) ELSE wsState
  /\ ops' = AddOp(ops, TimedOp(k, c, perCall))
  /\ held' = [held EXCEPT ![k][c] = @ + 1]
  /\ unsubDone' = [unsubDone EXCEPT ![k][c] = "no"]
  /\ unsubbed' = [unsubbed EXCEPT ![k] = FALSE]
  /\ scen' = ScenSubscribe(k, c)
  /\ thrown' = NoError
  /\ discarded' = <<>>
  /\ UNCHANGED <<options, registry, lastValue, cache, everOpened, wsQueue>>
  /\ ServerUnchanged

\* The HTTP subscribe meets a supplier that takes `latency` ticks: within the
\* deadline the subscription is recorded and the value goes back; past it the
\* channel gives up with Timeout and the server is left alone.
HttpTimedSubscribe(o, latency) ==
  /\ o \in Ops /\ o.kind = "subscribe" /\ o.st = "request"
  /\ IF latency <= o.timeout
     THEN /\ subscribedSessions' = TopicSubscribe(subscribedSessions, o.key, ClientSession)
          /\ subscriptions' =
               IF IndexOf(subscribedSessions[o.key], ClientSession) > 0 THEN subscriptions
               ELSE [subscriptions EXCEPT ![ClientSession] = Append(@, o.key)]
          /\ ops' = AddOp(DelOp(ops, o),
                          [o EXCEPT !.st = "ok", !.data = value[o.key], !.latency = latency])
     ELSE /\ UNCHANGED <<subscribedSessions, subscriptions>>
          /\ ops' = AddOp(DelOp(ops, o),
                          [o EXCEPT !.st = "error", !.data = Timeout, !.latency = latency])
  /\ delivered' = <<>>
  /\ thrown' = NoError
  /\ discarded' = <<>>
  /\ ClientUnchanged
  /\ UNCHANGED <<wsQueue, value, sessions, wsServerVars, channelVars, localVars>>

InitTimeout ==
  /\ options \in {[subscribe |-> b, cache |-> TRUE, callTimeout |-> t] :
                    b \in BOOLEAN, t \in Timeouts}
  /\ registry = [k \in Keys |-> <<>>]
  /\ lastValue = [k \in Keys |-> Absent]
  /\ cache = [k \in Keys |-> Absent]
  /\ ops = EmptyBag
  /\ wsState = "Disconnected"
  /\ everOpened = FALSE
  /\ wsQueue = <<>>
  /\ value \in [Keys -> Values]
  /\ subscribedSessions = [k \in Keys |-> <<>>]
  /\ subscriptions = [s \in Sessions |-> <<>>]
  /\ sessions = <<>>
  /\ status = [s \in Sessions |-> "new"]
  /\ pending = {}
  /\ messages = 0
  /\ sent = <<>>
  /\ handled = NoMessage
  /\ delivered = <<>>
  /\ held = [k \in Keys |-> [c \in Consumers |-> 0]]
  /\ unsubDone = [k \in Keys |-> [c \in Consumers |-> "no"]]
  /\ unsubbed = [k \in Keys |-> FALSE]
  /\ scen = [k \in Keys |-> "none"]
  /\ thrown = NoError
  /\ discarded = <<>>
  /\ ChannelIdle
  /\ NoClients

NextTimeout ==
  \/ \E k \in Keys, c \in Consumers, perCall \in Timeouts \cup {NoTimeout} :
       TimedSubscribe(k, c, perCall)
  \/ \E o \in Ops, latency \in Timeouts : HttpTimedSubscribe(o, latency)
  \/ \E o \in Ops : SubscribeResolved(o)
  \/ \E o \in Ops : SubscribeRejected(o)

SpecTimeout == InitTimeout /\ [][NextTimeout]_vars

\* ------------------------------------------------ the push channel's timers
\* The reconnect delays and ceilings a client is configured with, in ticks.
MaxDelay == 3

Delays == 1..MaxDelay

Min(a, b) == IF a <= b THEN a ELSE b

\* The delay after one more failure: doubled, and no more than the ceiling.
NextDelayUncapped(d) == 2 * d

NextDelay(d) == Min(2 * d, options.errorDelayMaxDuration)

\* What the channel's own steps leave alone.
ChannelOnly ==
  UNCHANGED <<options, registry, lastValue, cache, wsQueue, serverVars,
              wsServerVars, ghostVars, localVars>>

\* connect(): the first connection attempt starts.
ChannelConnect ==
  /\ wsState = "Disconnected"
  /\ wsState' = "Connecting"
  /\ socket' = "connecting"
  /\ delay' = options.reconnectDelay
  /\ event' = "connect"
  /\ UNCHANGED <<ops, everOpened, reconnectTimer, pingTimer, alive, pingOut>>
  /\ ChannelOnly

\* The socket opens: the backoff is reset, the ping interval starts, and on
\* every open but the first onReconnected runs.
ChannelOpen ==
  /\ wsState = "Connecting" /\ socket = "connecting"
  /\ everOpened => InFlight + Len(LiveKeys(registry)) <= MaxInFlight
  /\ wsState' = "Open"
  /\ socket' = "open"
  /\ everOpened' = TRUE
  /\ ops' = IF everOpened THEN Resubscribe(ops, registry) ELSE ops
  /\ delay' = options.reconnectDelay
  /\ pingTimer' = TRUE
  /\ alive' = TRUE
  /\ pingOut' = FALSE
  /\ event' = "open"
  /\ UNCHANGED reconnectTimer
  /\ ChannelOnly

\* The channel leaves Connecting or Open for Backoff: the socket is dropped,
\* the ping interval stops, the reconnect timer is set with the current delay
\* and the delay grows for the next failure.
EnterBackoff ==
  /\ wsState' = "Backoff"
  /\ socket' = "none"
  /\ pingTimer' = FALSE
  /\ pingOut' = FALSE
  /\ reconnectTimer' = delay
  /\ delay' = NextDelay(delay)

\* The connection attempt fails.
ChannelError ==
  /\ wsState = "Connecting" /\ socket = "connecting"
  /\ EnterBackoff
  /\ event' = "error"
  /\ UNCHANGED <<ops, everOpened, alive>>
  /\ ChannelOnly

\* The open socket closes or fails.
SocketLost ==
  /\ wsState = "Open" /\ socket = "open"
  /\ EnterBackoff
  /\ event' = "lost"
  /\ UNCHANGED <<ops, everOpened, alive>>
  /\ ChannelOnly

\* The ping interval fires, RpcSession.checkAlive: without a pong since the
\* last ping the socket is terminated, and the channel is back in the
\* reconnect loop; otherwise the flag is lowered and a ping is sent.
CheckAlive ==
  /\ pingTimer /\ wsState = "Open" /\ socket = "open"
  /\ IF ~alive
     THEN /\ EnterBackoff
          /\ event' = "terminate"
          /\ UNCHANGED alive
     ELSE /\ alive' = FALSE
          /\ pingOut' = TRUE
          /\ event' = "ping"
          /\ UNCHANGED <<wsState, socket, pingTimer, reconnectTimer, delay>>
  /\ UNCHANGED <<ops, everOpened>>
  /\ ChannelOnly

\* ws.on("pong"): the peer answered the ping, the flag is raised.
PongKeepsFlag ==
  /\ socket = "open" /\ pingOut
  /\ alive' = alive
  /\ pingOut' = FALSE
  /\ event' = "pong"
  /\ UNCHANGED <<ops, wsState, everOpened, socket, pingTimer, reconnectTimer, delay>>
  /\ ChannelOnly

Pong ==
  /\ socket = "open" /\ pingOut
  /\ alive' = TRUE
  /\ pingOut' = FALSE
  /\ event' = "pong"
  /\ UNCHANGED <<ops, wsState, everOpened, socket, pingTimer, reconnectTimer, delay>>
  /\ ChannelOnly

\* The reconnect timer fires: the next attempt starts.
ChannelTimer ==
  /\ wsState = "Backoff" /\ reconnectTimer # NoTimer
  /\ wsState' = "Connecting"
  /\ socket' = "connecting"
  /\ reconnectTimer' = NoTimer
  /\ event' = "timer"
  /\ UNCHANGED <<ops, everOpened, delay, pingTimer, alive, pingOut>>
  /\ ChannelOnly

\* close(): the channel is closed for good; its timers are cancelled and its
\* socket, if it has one, is released.
ChannelCloseKeepsTimers ==
  /\ wsState # "Closed"
  /\ wsState' = "Closed"
  /\ UNCHANGED <<reconnectTimer, pingTimer>>
  /\ pingOut' = FALSE
  /\ socket' = IF socket \in {"connecting", "open"} THEN "closing" ELSE "none"
  /\ event' = "close"
  /\ UNCHANGED <<ops, everOpened, delay, alive>>
  /\ ChannelOnly

ChannelClose ==
  /\ wsState # "Closed"
  /\ wsState' = "Closed"
  /\ reconnectTimer' = NoTimer
  /\ pingTimer' = FALSE
  /\ pingOut' = FALSE
  /\ socket' = IF socket \in {"connecting", "open"} THEN "closing" ELSE "none"
  /\ event' = "close"
  /\ UNCHANGED <<ops, everOpened, delay, alive>>
  /\ ChannelOnly

\* The close event of a released socket arrives: the channel is closed and
\* schedules nothing.
SocketClosed ==
  /\ socket = "closing"
  /\ socket' = "none"
  /\ event' = "closed"
  /\ UNCHANGED <<ops, wsState, everOpened, delay, reconnectTimer, pingTimer,
                 alive, pingOut>>
  /\ ChannelOnly

InitChannel ==
  /\ options \in {[subscribe |-> TRUE, cache |-> TRUE,
                   reconnectDelay |-> r, errorDelayMaxDuration |-> m] :
                    r \in Delays, m \in Delays}
  /\ options.reconnectDelay <= options.errorDelayMaxDuration
  /\ registry = [k \in Keys |-> <<>>]
  /\ lastValue = [k \in Keys |-> Absent]
  /\ cache = [k \in Keys |-> Absent]
  /\ ops = EmptyBag
  /\ wsState = "Disconnected"
  /\ everOpened = FALSE
  /\ wsQueue = <<>>
  /\ value = [k \in Keys |-> 1]
  /\ subscribedSessions = [k \in Keys |-> <<>>]
  /\ subscriptions = [s \in Sessions |-> <<>>]
  /\ sessions = <<>>
  /\ status = [s \in Sessions |-> "new"]
  /\ pending = {}
  /\ messages = 0
  /\ sent = <<>>
  /\ handled = NoMessage
  /\ delivered = <<>>
  /\ held = [k \in Keys |-> [c \in Consumers |-> 0]]
  /\ unsubDone = [k \in Keys |-> [c \in Consumers |-> "no"]]
  /\ unsubbed = [k \in Keys |-> FALSE]
  /\ scen = [k \in Keys |-> "none"]
  /\ thrown = NoError
  /\ discarded = <<>>
  /\ ChannelIdle
  /\ NoClients

NextChannel ==
  \/ ChannelConnect
  \/ ChannelOpen
  \/ ChannelError
  \/ SocketLost
  \/ ChannelTimer
  \/ CheckAlive
  \/ Pong
  \/ ChannelClose
  \/ SocketClosed

SpecChannel == InitChannel /\ [][NextChannel]_vars

\* ------------------------------------------------ the server's session map
\* What the steps on the session map leave alone.
SessionsOnly ==
  UNCHANGED <<clientVars, serverVars, wsServerVars, ghostVars, channelVars>>

\* session.terminate(): the socket of an open session is shut; its close
\* event follows.
Terminate(w, old) ==
  IF old # NoSession /\ w[old] = "open" THEN [w EXCEPT ![old] = "closing"]
  ELSE w

\* wss.on("connection"): a session is made for the socket and opened; a
\* session already held under the id is terminated; the new one takes its
\* place in `sessions`.
ClientConnection(id) ==
  /\ \E s \in SessionIds : ws[s] = "none"
  /\ LET s == CHOOSE n \in SessionIds :
                /\ ws[n] = "none"
                /\ \A t \in SessionIds : ws[t] = "none" => n <= t
         old == sessionOf[id]
     IN  /\ ws' = [Terminate(ws, old) EXCEPT ![s] = "open"]
         /\ remoteIdOf' = [remoteIdOf EXCEPT ![s] = id]
         /\ sessionOf' = [sessionOf EXCEPT ![id] = s]
  /\ UNCHANGED answer
  /\ SessionsOnly

\* The socket of a session goes down without the server asking: the client
\* closes it, the network drops it, or the liveness check terminates it.
ClientSocketDropped(s) ==
  /\ ws[s] = "open"
  /\ ws' = [ws EXCEPT ![s] = "closing"]
  /\ UNCHANGED <<sessionOf, remoteIdOf, answer>>
  /\ SessionsOnly

\* ws.on("close"), up to its await: session.remove() is started.
CloseEvent(s) ==
  /\ ws[s] = "closing"
  /\ ws' = [ws EXCEPT ![s] = "removing"]
  /\ UNCHANGED <<sessionOf, remoteIdOf, answer>>
  /\ SessionsOnly

\* ws.on("close") that deletes the entry of the id whatever session it holds.
CloseResumedAlwaysDeletes(s) ==
  /\ ws[s] = "removing"
  /\ ws' = [ws EXCEPT ![s] = "closed"]
  /\ sessionOf' = [sessionOf EXCEPT ![remoteIdOf[s]] = NoSession]
  /\ answer' = [op |-> "close", id |-> remoteIdOf[s], thrown |-> FALSE,
                value |-> "Client disconnected"]
  /\ UNCHANGED remoteIdOf
  /\ SessionsOnly

\* ws.on("close"), after its await: the entry of the id is deleted if it is
\* still this session, and the handler logs which of the two it was.
CloseResumed(s) ==
  /\ ws[s] = "removing"
  /\ ws' = [ws EXCEPT ![s] = "closed"]
  /\ LET id == remoteIdOf[s] IN
       IF sessionOf[id] = s
       THEN /\ sessionOf' = [sessionOf EXCEPT ![id] = NoSession]
            /\ answer' = [op |-> "close", id |-> id, thrown |-> FALSE,
                          value |-> "Client disconnected"]
       ELSE /\ sessionOf' = sessionOf
            /\ answer' = [op |-> "close", id |-> id, thrown |-> FALSE,
                          value |-> "Disconnected prev session"]
  /\ UNCHANGED remoteIdOf
  /\ SessionsOnly

\* getRemote(clientId): throws without a session for the id, else gives the
\* remote of the session held for it.
GetRemote(id) ==
  /\ answer' = [op |-> "getRemote", id |-> id,
                thrown |-> (sessionOf[id] = NoSession),
                value |-> sessionOf[id]]
  /\ UNCHANGED <<sessionOf, ws, remoteIdOf>>
  /\ SessionsOnly

\* isConnected(remoteId): !!sessions[remoteId].
IsConnected(id) ==
  /\ answer' = [op |-> "isConnected", id |-> id, thrown |-> FALSE,
                value |-> (sessionOf[id] # NoSession)]
  /\ UNCHANGED <<sessionOf, ws, remoteIdOf>>
  /\ SessionsOnly

NextSessions ==
  \/ \E id \in ClientIds : ClientConnection(id)
  \/ \E s \in SessionIds : ClientSocketDropped(s)
  \/ \E s \in SessionIds : CloseEvent(s)
  \/ \E s \in SessionIds : CloseResumed(s)
  \/ \E id \in ClientIds : GetRemote(id)
  \/ \E id \in ClientIds : IsConnected(id)

SpecSessions == Init /\ [][NextSessions]_vars

\* ------------------------------------------------ the WebSocket server
\* What SpecServer leaves alone: the client.
ServerOnly == UNCHANGED <<clientVars, ghostVars, channelVars, localVars>>

\* A supplier call the server is awaiting, for a subscribe or for a trigger.
Await(kind, session, key) == [kind |-> kind, session |-> session, key |-> key]

\* A message taken by handleMessage: its type, and whether getServiceItem
\* found the item it names.
Handled(type, found) == [type |-> type, found |-> found]

\* A message for an item that was found, with the session that sent it and
\* the key it names.
HandledFor(type, session, key) ==
  [type |-> type, found |-> TRUE, session |-> session, key |-> key]

\* One Data message handed to session.send.
Data(session, key) == [session |-> session, key |-> key, data |-> value[key]]

\* server.on("connection"): a new RpcSession joins `sessions`.
Connection(s) ==
  /\ status[s] = "new"
  /\ status' = [status EXCEPT ![s] = "open"]
  /\ sessions' = Append(sessions, s)
  /\ sent' = <<>>
  /\ UNCHANGED <<value, subscribedSessions, subscriptions, pending, messages>>
  /\ ServerOnly
  /\ handled' = NoMessage

\* handleMessage, Subscribe: RpcSession.subscribe awaits topic.subscribe. For
\* a session already in the key's list topic.subscribe returns at once and
\* the entry is pushed to the session's subscriptions; otherwise the session
\* joins the list and the supplier is awaited.
SessionSubscribe(s, k) ==
  /\ status[s] = "open"
  /\ messages < MaxMessages
  /\ messages' = messages + 1
  /\ subscribedSessions' = TopicSubscribe(subscribedSessions, k, s)
  /\ IF IndexOf(subscribedSessions[k], s) > 0
     THEN /\ subscriptions' = [subscriptions EXCEPT ![s] = Append(@, k)]
          /\ pending' = pending
     ELSE /\ Await("subscribe", s, k) \notin pending
          /\ subscriptions' = subscriptions
          /\ pending' = pending \cup {Await("subscribe", s, k)}
  /\ sent' = <<>>
  /\ UNCHANGED <<value, sessions, status>>
  /\ ServerOnly
  /\ handled' = HandledFor("Subscribe", s, k)

\* topic.subscribe, the supplier returned: the data is sent to the session,
\* and RpcSession.subscribe pushes the entry to the session's subscriptions.
\* On a socket closed meanwhile ws.send may throw, and then nothing is pushed.
SubscribeSupplied(p) ==
  /\ p \in pending /\ p.kind = "subscribe"
  /\ pending' = pending \ {p}
  /\ IF status[p.session] = "open"
     THEN /\ sent' = <<Data(p.session, p.key)>>
          /\ subscriptions' = [subscriptions EXCEPT ![p.session] = Append(@, p.key)]
     ELSE /\ sent' = <<>>
          /\ \E throws \in BOOLEAN :
               subscriptions' = IF throws THEN subscriptions
                                ELSE [subscriptions EXCEPT ![p.session] = Append(@, p.key)]
  /\ UNCHANGED <<value, subscribedSessions, sessions, status, messages>>
  /\ ServerOnly
  /\ handled' = NoMessage

\* topic.subscribe, the supplier threw: handleMessage logs the error; the
\* push to the session's subscriptions is not reached.
SubscribeThrew(p) ==
  /\ p \in pending /\ p.kind = "subscribe"
  /\ pending' = pending \ {p}
  /\ sent' = <<>>
  /\ UNCHANGED <<value, subscribedSessions, subscriptions, sessions, status, messages>>
  /\ ServerOnly
  /\ handled' = NoMessage

\* handleMessage, Unsubscribe: topic.unsubscribe, then the entries of the key
\* leave the session's subscriptions.
SessionUnsubscribe(s, k) ==
  /\ status[s] = "open"
  /\ subscribedSessions' = TopicUnsubscribe(subscribedSessions, k, s)
  /\ subscriptions' = [subscriptions EXCEPT ![s] = Without(@, k)]
  /\ sent' = <<>>
  /\ UNCHANGED <<value, sessions, status, pending, messages>>
  /\ ServerOnly
  /\ handled' = HandledFor("Unsubscribe", s, k)

\* trigger: for every session in the key's list the supplier is awaited.
Trigger(k) ==
  /\ subscribedSessions[k] # <<>>
  /\ pending' = pending \cup {Await("trigger", s, k) : s \in Range(subscribedSessions[k])}
  /\ pending' # pending
  /\ sent' = <<>>
  /\ UNCHANGED <<value, subscribedSessions, subscriptions, sessions, status, messages>>
  /\ ServerOnly
  /\ handled' = NoMessage

\* trigger, the supplier returned: the data is sent to the session.
TriggerSupplied(p) ==
  /\ p \in pending /\ p.kind = "trigger"
  /\ pending' = pending \ {p}
  /\ sent' = <<Data(p.session, p.key)>>
  /\ UNCHANGED <<value, subscribedSessions, subscriptions, sessions, status, messages>>
  /\ ServerOnly
  /\ handled' = NoMessage

\* ws.on("close"): session.remove().
WsClose(s) ==
  /\ status[s] = "open"
  /\ status' = [status EXCEPT ![s] = "closed"]
  /\ ServerRemove(s)
  /\ sent' = <<>>
  /\ UNCHANGED <<value, pending, messages>>
  /\ ServerOnly
  /\ handled' = NoMessage

\* The value behind a topic changes.
SupplierChanges(k) ==
  /\ value[k] + 1 \in Values
  /\ value' = [value EXCEPT ![k] = @ + 1]
  /\ sent' = <<>>
  /\ UNCHANGED <<subscribedSessions, subscriptions, sessions, status, pending, messages>>
  /\ ServerOnly
  /\ handled' = NoMessage

\* An Error message with a code, handed to session.send.
ErrorResponse(session, code) == [session |-> session, type |-> "Error", code |-> code]

\* RpcErrors.NotFound.
NotFound == 404

MessageTypes == {"Subscribe", "Unsubscribe", "Get", "Call"}

\* handleMessage, a message naming an item that getServiceItem does not
\* find: the Error thrown for it is caught by handleMessage's own catch and
\* logged; nothing is sent and nothing else is touched.
UnknownItem(s, type) ==
  /\ status[s] = "open"
  /\ handled' = Handled(type, FALSE)
  /\ sent' = <<>>
  /\ UNCHANGED <<value, subscribedSessions, subscriptions, sessions, status,
                 pending, messages>>
  /\ ServerOnly

NextServer ==
  \/ \E s \in Sessions : Connection(s)
  \/ \E s \in Sessions, k \in Keys : SessionSubscribe(s, k)
  \/ \E p \in pending : SubscribeSupplied(p)
  \/ \E p \in pending : SubscribeThrew(p)
  \/ \E s \in Sessions, k \in Keys : SessionUnsubscribe(s, k)
  \/ \E k \in Keys : Trigger(k)
  \/ \E p \in pending : TriggerSupplied(p)
  \/ \E s \in Sessions : WsClose(s)
  \/ \E k \in Keys : SupplierChanges(k)
  \/ \E s \in Sessions, type \in MessageTypes : UnknownItem(s, type)

SpecServer == Init /\ [][NextServer]_vars

\* ================================================================ claims
\* The subscribe call of consumer c for key k is the step that raises what c
\* holds; its unsubscribe call is the step that lowers it.
SubscribeCalled(k, c) == held'[k][c] = held[k][c] + 1

UnsubscribeCall(k, c) == held'[k][c] = held[k][c] - 1

\* C1: in every reachable state in which the registry holds at least one
\* consumer for a key, the server holds at most one subscription of the
\* client's session for that key, however many consumers (the same callback
\* or different ones) subscribed to it.
C1_AtMostOneServerSubscription ==
  \A k \in Keys :
    registry[k] # <<>> => ServerCount(ClientSession, k) <= 1

\* Two consumers are registered for a key and the server holds one
\* subscription for it.
C1_TwoConsumersOneSubscription ==
  \E k \in Keys :
    /\ Len(registry[k]) = 2
    /\ Range(registry[k]) = Consumers
    /\ ServerCount(ClientSession, k) = 1

\* C2: after the last consumer of a key has unsubscribed, with no subscribe
\* for the key issued since, the server's subscription count for the key
\* becomes 0 and stays 0: once nothing is in flight any more, the count is 0.
C2_LastUnsubscribeClearsServer ==
  \A k \in Keys :
    (Quiescent /\ unsubbed[k] /\ registry[k] = <<>>)
      => ServerCount(ClientSession, k) = 0

\* C3: a consumer is never invoked after its unsubscribe has returned, unless
\* it has subscribed again since.
C3_NoInvocationAfterUnsubscribe ==
  \A i \in 1..Len(delivered) :
    unsubDone[delivered[i].key][delivered[i].consumer] # "returned"

\* C4: a consumer subscribes to a key and unsubscribes before the HTTP
\* subscribe has resolved; once everything in flight has completed, the
\* registry and the server both hold no subscription for the key.
C4_RaceEndsWithNoSubscription ==
  \A k \in Keys :
    (Quiescent /\ scen[k] = "raced")
      => registry[k] = <<>> /\ ServerCount(ClientSession, k) = 0

C7_CloseKeepsRegistry ==
  [][(wsState # "Closed" /\ wsState' = "Closed")
       => registry' = registry /\ lastValue' = lastValue]_vars

\* The client was closed with two consumers registered: they are registered
\* still, and the server has dropped the subscription.
C7_ClosedWithConsumers ==
  \E k \in Keys :
    /\ wsState = "Closed" /\ everOpened /\ Quiescent
    /\ Len(registry[k]) = 2
    /\ lastValue[k] # Absent
    /\ ServerCount(ClientSession, k) = 0

\* C8: after a client's socket has closed the server holds no subscription
\* for it: once the session is closed and no supplier call of one of its
\* subscribes is awaited any more, no topic's list holds the session.
C8_ClosedSessionHoldsNothing ==
  \A s \in Sessions :
    (/\ status[s] = "closed"
     /\ \A p \in pending : ~(p.kind = "subscribe" /\ p.session = s))
      => \A k \in Keys : ServerCount(s, k) = 0

C10_SameCallbackTwice ==
  [][\A k \in Keys, c \in Consumers :
       /\ (\E d \in Values : delivered' = <<Invocation(c, k, d, "subscribe")>>)
            => Count(registry'[k], c) = Count(registry[k], c) + 1
       /\ (UnsubscribeCall(k, c) /\ registry[k] = <<c, c>>)
            => /\ registry'[k] = <<c>>
               /\ ops' = ops
               /\ subscribedSessions' = subscribedSessions
       /\ (UnsubscribeCall(k, c) /\ registry[k] = <<c>>)
            => /\ registry'[k] = <<>>
               /\ ops' = AddOp(ops, NewOp("unsubscribe", k, NoConsumer, <<>>))
               /\ subscribedSessions' = subscribedSessions
       /\ \A o \in Ops :
            (o.kind = "unsubscribe" /\ o.key = k /\ o.st = "request"
             /\ ops' = AddOp(DelOp(ops, o), [o EXCEPT !.st = "ok"]))
            => Count(subscribedSessions'[k], ClientSession) = 0]_vars

\* The same callback is registered twice for a key, and the server holds one
\* subscription.
C10_RegisteredTwice ==
  \E k \in Keys, c \in Consumers :
    /\ registry[k] = <<c, c>>
    /\ held[k][c] = 2
    /\ ServerCount(ClientSession, k) = 1

\* The step in which the client takes a Data frame off its open socket.
FrameConsumed ==
  /\ wsState = "Open" /\ wsState' = "Open"
  /\ wsQueue # <<>> /\ wsQueue' = Tail(wsQueue)

\* C11: an unsubscribe call sends the HTTP unsubscribe for the key if and
\* only if the registry reports that no consumer is left for it; while a
\* consumer is left the call sends nothing and leaves the server's
\* subscription alone, and a frame pushed for the key is handed to every
\* consumer that is still registered.
C11_UnsubscribeTellsServerIffLast ==
  [][/\ \A k \in Keys, c \in Consumers :
          UnsubscribeCall(k, c) =>
            LET left == RemoveOne(registry[k], c)
                told == ops' = AddOp(ops, NewOp("unsubscribe", k, NoConsumer, <<>>))
            IN /\ registry'[k] = left
               /\ told <=> left = <<>>
               /\ left # <<>> => /\ ops' = ops
                                 /\ UNCHANGED <<subscribedSessions, subscriptions>>
     /\ FrameConsumed =>
          LET f == Head(wsQueue)
          IN delivered' = InvokeAll(registry[f.key], f.key, f.data, "push")
    ]_vars

\* One of two registered consumers has unsubscribed and its call returned,
\* the server still holds the one subscription, no unsubscribe is on its
\* way, and the consumer that is left has just been handed a pushed value.
C11_RemainingConsumerStillPushed ==
  \E k \in Keys, c \in Consumers, other \in Consumers :
    /\ c # other
    /\ registry[k] = <<c>>
    /\ held[k][c] = 1 /\ held[k][other] = 0
    /\ unsubDone[k][other] = "returned"
    /\ PendingUnsubscribes(ops, k) = 0
    /\ ServerCount(ClientSession, k) = 1
    /\ \E d \in Values : delivered = <<Invocation(c, k, d, "push")>>

\* The step in which the subscribe call awaiting exchange o gets its answer.
Answered(o) == CopiesIn(o, ops') < CopiesIn(o, ops)

C14_DisabledPushDeliversOnce ==
  [][~options.subscribe =>
       /\ wsState \in {"Disconnected", "Closed"}
       /\ wsState' \in {"Disconnected", "Closed"}
       /\ wsQueue' = <<>>
       /\ \A i \in 1..Len(delivered') : delivered'[i].via \in {"cache", "subscribe"}
       /\ \A k \in Keys, c \in Consumers :
            SubscribeCalled(k, c) => wsState' = wsState
       /\ \A o \in Ops :
            (o.kind = "subscribe" /\ o.st = "ok" /\ Answered(o)) =>
              delivered' = <<Invocation(o.consumer, o.key, o.data, "subscribe")>>
    ]_vars

\* Push delivery is disabled, a consumer is registered with the initial value
\* and the server holds its subscription; the value behind the key has
\* changed since, nothing is in flight, and the consumer has not been told.
C14_ChangeNotPushed ==
  \E k \in Keys, c \in Consumers :
    /\ ~options.subscribe
    /\ registry[k] = <<c>>
    /\ ServerCount(ClientSession, k) = 1
    /\ lastValue[k] = 1 /\ value[k] = 2
    /\ wsState = "Disconnected"
    /\ Quiescent
    /\ delivered = <<>>

\* C15: when the server pushes a newer value for a key while the one HTTP
\* subscribe for it is on its way back with the older value (the socket being
\* open), the update is not lost: once the subscribe has resolved, nothing is
\* in flight and the socket is still open, the value the consumer saw last
\* is the pushed one.
C15_TriggeredValueObservedLast ==
  \A k \in Keys :
    (scen[k] = "triggered" /\ Quiescent /\ wsState = "Open" /\ registry[k] # <<>>)
      => lastValue[k] = value[k]

\* C16: when the HTTP subscribe of a resubscribe pass fails for a key, every
\* consumer registered for the key at that moment is detached from the
\* registry (so that a later frame for the key reaches none of them); when
\* it succeeds, the key keeps all its consumers.
C16_ResubscribeFailureDetachesAll ==
  [][\A o \in Ops :
       (o.kind = "resubscribe" /\ Answered(o)) =>
         /\ o.st = "error" => registry'[o.key] = <<>>
         /\ o.st = "ok" => registry' = registry
    ]_vars

\* C17: when the HTTP unsubscribe fails, the unsubscribe call does not end
\* with an error: the step that answers it raises nothing to the caller and
\* leaves the registry, from which the consumer was removed before the
\* request was sent, as it is.
C17_UnsubscribeErrorNotRaised ==
  [][\A o \in Ops :
       (o.kind = "unsubscribe" /\ o.st = "error" /\ Answered(o)) =>
         /\ thrown' = NoError
         /\ discarded' = <<>>
         /\ registry' = registry
    ]_vars

\* What the server holds for the client's session and a key after a single
\* subscribe: the session once in the key's list, the key once in the
\* session's subscriptions.
SingleSubscription(k) ==
  /\ subscribedSessions[k] = <<ClientSession>>
  /\ Count(subscriptions[ClientSession], k) = 1

C19_PerCallTimeout ==
  [][\A o \in Ops :
       (o.kind = "subscribe" /\ o.st # "request"
          /\ o.perCall # NoTimeout /\ o.perCall < o.latency) =>
         /\ o.st = "error" /\ o.data = Timeout
         /\ Answered(o) => (thrown' = "subscribe" /\ registry' = registry)
    ]_vars

\* C20: a request naming an item that the server's service tree does not
\* have is answered with an error of code 404 (NotFound) to the session that
\* sent it, and the server's subscription state stays as it was.
C20_UnknownItemNotFound ==
  [][~handled'.found =>
       /\ \E s \in Sessions : sent' = <<ErrorResponse(s, NotFound)>>
       /\ UNCHANGED <<subscribedSessions, subscriptions>>
    ]_vars

\* C21: in every quiescent state the value cached for a key is the most
\* recent one obtained for it, by a pushed frame or by the response of an
\* HTTP subscribe (of a subscribe or of a resubscribe). Every step that hands
\* consumers a value from the network leaves that value cached; a step that
\* ends with nothing in flight never leaves a cached value older than the one
\* cached (and handed to the consumers) before it; no consumer is ever
\* invoked with `undefined`; and losing the socket, or failing to connect,
\* invokes nobody and leaves the records and their values alone.
C21_LastValueNeverOlder ==
  [][/\ \A i \in 1..Len(delivered') :
          /\ delivered'[i].data # Absent
          /\ delivered'[i].via # "cache" =>
               lastValue'[delivered'[i].key] = delivered'[i].data
     /\ \A k \in Keys :
          (Quiescent' /\ lastValue[k] # Absent /\ lastValue'[k] # Absent)
            => lastValue'[k] >= lastValue[k]
     /\ (wsState \in {"Open", "Connecting"} /\ wsState' = "Backoff") =>
          /\ delivered' = <<>>
          /\ UNCHANGED <<registry, lastValue, cache>>
    ]_vars

\* The HTTP subscribes of resubscribe passes that have been sent and not
\* served yet.
ResubscribeRequests(B) ==
  Copies(B, {o \in BagToSet(B) : o.kind = "resubscribe" /\ o.st = "request"})

\* The step in which the socket opens.
Opened == wsState # "Open" /\ wsState' = "Open"

C23_ReconnectBackoff ==
  [][/\ (wsState \in {"Connecting", "Open"} /\ wsState' = "Backoff") =>
          /\ reconnectTimer' # NoTimer
          /\ reconnectTimer' = delay
          /\ delay' >= delay
          /\ delay < options.errorDelayMaxDuration => delay' > delay
     /\ (wsState = "Open" /\ wsState' = "Backoff") =>
          reconnectTimer' = options.reconnectDelay
     /\ (wsState = "Disconnected" /\ wsState' = "Connecting") =>
          delay' = options.reconnectDelay
     /\ Opened => delay' = options.reconnectDelay
     /\ reconnectTimer' # NoTimer =>
          /\ reconnectTimer' >= options.reconnectDelay
          /\ reconnectTimer' <= options.errorDelayMaxDuration
    ]_vars

\* The third failure in a row of a channel with reconnectDelay 1 and ceiling
\* 3: the reconnect waits 3, less than twice the 2 it waited before.
C23_DelayAtCeiling ==
  /\ options.reconnectDelay = 1 /\ options.errorDelayMaxDuration = 3
  /\ wsState = "Backoff"
  /\ reconnectTimer = 3
  /\ delay = 3

\* The step in which the ping interval fires on the open socket.
IntervalBoundary == event' \in {"ping", "terminate"}

C25_CloseIsTerminal ==
  [][/\ (wsState # "Closed" /\ wsState' = "Closed") =>
          /\ reconnectTimer' = NoTimer
          /\ pingTimer' = FALSE
          /\ socket' \in {"none", "closing"}
     /\ wsState = "Closed" =>
          /\ wsState' = "Closed"
          /\ reconnectTimer' = NoTimer
          /\ pingTimer' = FALSE
          /\ socket' = "none"
          /\ event' = "closed"
          /\ ops' = ops
    ]_vars

\* A channel that had an open socket was closed, and the close event of the
\* released socket has arrived since: nothing is scheduled.
C25_ClosedAfterOpen ==
  /\ wsState = "Closed"
  /\ event = "closed"
  /\ everOpened
  /\ socket = "none"
  /\ reconnectTimer = NoTimer /\ pingTimer = FALSE

\* C26: a frame pushed for a key that has no record in the registry (a push
\* racing with the last unsubscribe) is discarded: the step that takes it off
\* the socket invokes no consumer, creates no record, caches nothing and
\* raises no error.
C26_PushWithoutRecordDiscarded ==
  [][(FrameConsumed /\ registry[Head(wsQueue).key] = <<>>) =>
       /\ delivered' = <<>>
       /\ UNCHANGED <<registry, lastValue, cache>>
       /\ thrown' = NoError
       /\ discarded' = <<Head(wsQueue)>>
    ]_vars

\* The last consumer of a key has unsubscribed, the HTTP unsubscribe has not
\* reached the server yet, and a frame the server pushed meanwhile has just
\* been dropped.
C26_RacingPushDropped ==
  \E k \in Keys :
    /\ discarded = <<[key |-> k, data |-> 2]>>
    /\ wsState = "Open"
    /\ unsubbed[k] /\ registry[k] = <<>> /\ lastValue[k] = Absent
    /\ ops = SetToBag({NewOp("unsubscribe", k, NoConsumer, <<>>)})
    /\ ServerCount(ClientSession, k) = 1

C28_SessionListedOnce ==
  \A k \in Keys, s \in Sessions : ServerCount(s, k) <= 1

\* A session sent Subscribe twice for a key and both were handled: it is in
\* the key's list once, next to the other session.
C28_SubscribedTwiceListedOnce ==
  \E k \in Keys, s \in Sessions :
    /\ Count(subscriptions[s], k) = 2
    /\ ServerCount(s, k) = 1
    /\ Len(subscribedSessions[k]) = 2
    /\ pending = {}

\* C29: the server's unsubscribe of a session from a key changes the
\* membership of that session only: the step that handles an Unsubscribe
\* message leaves every other session as often in every key's list as it
\* was, also when the sender was not subscribed to the key.
C29_UnsubscribeTouchesOnlySender ==
  [][(handled'.type = "Unsubscribe" /\ handled'.found) =>
       \A other \in Sessions \ {handled'.session}, k \in Keys :
         ServerCount(other, k)' = ServerCount(other, k)
    ]_vars

\* C30: on the server a session is in the list of a topic's key if and only
\* if the session's own subscriptions hold that key, in every state in which
\* no supplier call of one of the session's subscribes is awaited; and so a
\* session that was removed is in no list, also when the supplier threw
\* during one of its subscribes.
C30_TopicAndSessionAgree ==
  \A s \in Sessions :
    (\A p \in pending : ~(p.kind = "subscribe" /\ p.session = s)) =>
      \A k \in Keys :
        /\ ServerCount(s, k) > 0 <=> k \in Range(subscriptions[s])
        /\ status[s] = "closed" => ServerCount(s, k) = 0

\* The step in which the supplier call p of a trigger returns and its Data
\* message is handed to the session.
TriggerSent(p) ==
  /\ p \in pending /\ p.kind = "trigger" /\ p \notin pending'
  /\ \E i \in 1..Len(sent') : sent'[i].session = p.session /\ sent'[i].key = p.key

\* C31: a trigger never sends a Data message to a session that, by the time
\* the message is sent, has been unsubscribed from the key or removed (its
\* socket closed), also when that happened while the trigger was awaiting
\* the supplier for the session: at the step that sends, the session is open
\* and in the key's list.
C31_TriggerSendsToSubscribedOnly ==
  [][\A p \in pending :
       TriggerSent(p) =>
         /\ status[p.session] = "open"
         /\ ServerCount(p.session, p.key) > 0
    ]_vars

\* The sessions with an open socket that came with the client id.
LiveSessions(id) == {s \in SessionIds : ws[s] = "open" /\ remoteIdOf[s] = id}

\* C32: the server keeps at most one live session per client id. A session
\* whose socket is open is the one `sessions` holds for its id, so for its id
\* isConnected is true and getRemote gives that session; the close handler of
\* a session that was replaced leaves `sessions` as it is; and getRemote
\* throws exactly when `sessions` holds nothing for the id.
C32_OneSessionPerClientId ==
  /\ [](\A id \in ClientIds :
          /\ Cardinality(LiveSessions(id)) <= 1
          /\ \A s \in LiveSessions(id) : sessionOf[id] = s)
  /\ [][\A s \in SessionIds :
          (ws[s] = "removing" /\ ws'[s] = "closed"
             /\ sessionOf[remoteIdOf[s]] # s) => sessionOf' = sessionOf
       ]_vars
  /\ [][\A id \in ClientIds :
          (answer'.op = "getRemote" /\ answer'.id = id
             /\ UNCHANGED <<sessionOf, ws>>) =>
             /\ answer'.thrown <=> (sessionOf[id] = NoSession)
             /\ ~answer'.thrown => answer'.value = sessionOf[id]
       ]_vars

\* C32 witness: the close handler of a replaced session has run, and the
\* session that replaced it is still held for the id, its socket open.
C32_PreviousClosedNewHeld ==
  /\ answer.op = "close"
  /\ answer.value = "Disconnected prev session"
  /\ sessionOf[answer.id] # NoSession
  /\ ws[sessionOf[answer.id]] = "open"

\* The keys the server holds a subscription for on behalf of the client.
ServerKeys == {k \in Keys : ServerCount(ClientSession, k) > 0}

\* The keys with at least one consumer in the local registry.
LocalKeys == {k \in Keys : registry[k] # <<>>}

\* C33: in every state with the WebSocket open and nothing in flight, the
\* keys subscribed on the server for the client are exactly the keys with at
\* least one consumer in the registry: no orphaned server subscription, and
\* no locally live key without a server subscription.
C33_ServerKeysMatchRegistry ==
  (Quiescent /\ wsState = "Open") => ServerKeys = LocalKeys

====
